---------------------------- MODULE Spec2Model ----------------------------
(***************************************************************************)
(* A model of build_data.py: the per-security derivation of a snapshot and *)
(* a history of valuation ratios from price rows and disclosure rows.      *)
(*                                                                         *)
(* Representation.                                                         *)
(*   - A CSV cell (a Python str) is a sequence of one-character strings,   *)
(*     so that strip(), float(), slicing and string comparison are         *)
(*     computed and not assumed.                                           *)
(*   - A Python float is an exact rational <<n, d>> in lowest terms with   *)
(*     d > 0.  round(x, 2) and round(x) round half to even on the exact    *)
(*     value; a binary float can differ from that only on an exact decimal *)
(*     tie.                                                                *)
(*   - Python's None is the empty tuple.                                   *)
(*   - A division whose denominator is None or zero (a TypeError or a      *)
(*     ZeroDivisionError in Python) yields Fault, which every later        *)
(*     operation propagates; an action that computes a Fault ends in       *)
(*     pc = "raised".                                                      *)
(***************************************************************************)
EXTENDS Integers, Sequences, FiniteSets, TLC

None == <<>>

Fault == <<0, 0, 0>>

IsFault(x) == Len(x) = 3

-----------------------------------------------------------------------------
(* Strings *)

\* Unicode code point of the characters that occur in the modelled cells.
Ord(c) ==
    CASE c = " " -> 32
      [] c = "-" -> 45
      [] c = "." -> 46
      [] c = "0" -> 48
      [] c = "1" -> 49
      [] c = "2" -> 50
      [] c = "3" -> 51
      [] c = "4" -> 52
      [] c = "5" -> 53
      [] c = "6" -> 54
      [] c = "7" -> 55
      [] c = "8" -> 56
      [] c = "9" -> 57
      [] OTHER   -> 120

IsDigit(c) == c \in {"0", "1", "2", "3", "4", "5", "6", "7", "8", "9"}

\* Python's s <= t on str: lexicographic by code point.
RECURSIVE StrLE(_, _)
StrLE(s, t) ==
    IF s = <<>> THEN TRUE
    ELSE IF t = <<>> THEN FALSE
    ELSE IF Ord(Head(s)) < Ord(Head(t)) THEN TRUE
    ELSE IF Ord(Head(s)) > Ord(Head(t)) THEN FALSE
    ELSE StrLE(Tail(s), Tail(t))

RECURSIVE LStrip(_)
LStrip(s) == IF s # <<>> /\ Head(s) = " " THEN LStrip(Tail(s)) ELSE s

RECURSIVE RStrip(_)
RStrip(s) ==
    IF s # <<>> /\ s[Len(s)] = " " THEN RStrip(SubSeq(s, 1, Len(s) - 1)) ELSE s

\* str.strip()
Strip(s) == RStrip(LStrip(s))

\* s[:n]
Prefix(s, n) == SubSeq(s, 1, IF Len(s) < n THEN Len(s) ELSE n)

\* row.get(key, default)
Get(row, key, default) == IF key \in DOMAIN row THEN row[key] ELSE default

-----------------------------------------------------------------------------
(* Rationals standing for floats *)

Abs(n) == IF n < 0 THEN -n ELSE n

RECURSIVE GCD(_, _)
GCD(a, b) == IF b = 0 THEN a ELSE GCD(b, a % b)

Rat(n, d) ==
    LET g == GCD(Abs(n), Abs(d))
        s == IF d < 0 THEN -1 ELSE 1
    IN  <<(s * n) \div g, (s * d) \div g>>

Zero == <<0, 1>>

IsNum(x) == Len(x) = 2

\* Python truthiness of an Optional[float] or Optional[int]
Truthy(x) == IsNum(x) /\ x[1] # 0

\* a / b
Div(a, b) ==
    IF IsFault(a) \/ IsFault(b) THEN Fault
    ELSE IF a = None \/ b = None THEN Fault
    ELSE IF b[1] = 0 THEN Fault
    ELSE Rat(a[1] * b[2], a[2] * b[1])

Mul(a, b) ==
    IF ~IsNum(a) \/ ~IsNum(b) THEN Fault
    ELSE Rat(a[1] * b[1], a[2] * b[2])

Add(a, b) ==
    IF ~IsNum(a) \/ ~IsNum(b) THEN Fault
    ELSE Rat(a[1] * b[2] + b[1] * a[2], a[2] * b[2])

Sub(a, b) ==
    IF ~IsNum(a) \/ ~IsNum(b) THEN Fault
    ELSE Rat(a[1] * b[2] - b[1] * a[2], a[2] * b[2])

\* abs(a)
FAbs(a) == IF ~IsNum(a) THEN Fault ELSE <<Abs(a[1]), a[2]>>

Gt0(a) == IsNum(a) /\ a[1] > 0

Hundred == <<100, 1>>

\* n / d rounded to the nearest integer, ties to the even one (d > 0)
RoundHalfEven(n, d) ==
    LET q == n \div d
        r == n % d
    IN  IF 2 * r < d THEN q
        ELSE IF 2 * r > d THEN q + 1
        ELSE IF q % 2 = 0 THEN q ELSE q + 1

\* round(a, 2)
Round2(a) ==
    IF ~IsNum(a) THEN Fault ELSE Rat(RoundHalfEven(100 * a[1], a[2]), 100)

\* round(a): an int
Round0(a) ==
    IF ~IsNum(a) THEN Fault ELSE <<RoundHalfEven(a[1], a[2]), 1>>

-----------------------------------------------------------------------------
(* Parsing *)

DigitVal(c) == Ord(c) - 48

\* the digits of s read as a decimal integer, the point skipped
RECURSIVE DigitsValue(_, _)
DigitsValue(s, acc) ==
    IF s = <<>> THEN acc
    ELSE IF Head(s) = "." THEN DigitsValue(Tail(s), acc)
    ELSE DigitsValue(Tail(s), 10 * acc + DigitVal(Head(s)))

RECURSIVE Pow10(_)
Pow10(k) == IF k = 0 THEN 1 ELSE 10 * Pow10(k - 1)

\* float(s) for s already stripped and non-empty: an optional minus sign, then
\* digits with at most one point and at least one digit; None stands for the
\* ValueError that to_float catches.
ParseFloat(s) ==
    LET neg  == Head(s) = "-"
        body == IF neg THEN Tail(s) ELSE s
        idx  == 1 .. Len(body)
        dots == {i \in idx : body[i] = "."}
        digs == {i \in idx : IsDigit(body[i])}
        frac == IF dots = {} THEN 0
                ELSE Len(body) - (CHOOSE i \in dots : TRUE)
        v    == DigitsValue(body, 0)
    IN  IF digs = {} \/ Cardinality(dots) > 1
           \/ Cardinality(digs) + Cardinality(dots) # Len(body)
        THEN None
        ELSE Rat(IF neg THEN -v ELSE v, Pow10(frac))

to_float(val) ==
    LET s == Strip(val)
    IN  IF s = <<>> THEN None ELSE ParseFloat(s)

-----------------------------------------------------------------------------
(* Price index *)

\* the loop of process_stock that fills price_by_date: later rows overwrite
RECURSIVE PriceByDate(_, _)
PriceByDate(rows, acc) ==
    IF rows = <<>> THEN acc
    ELSE LET row      == Head(rows)
             date_str == Strip(Get(row, "Date", <<>>))
             close    == to_float(Get(row, "Close", <<>>))
         IN  IF date_str # <<>> /\ close # None
             THEN PriceByDate(Tail(rows),
                      [d \in DOMAIN acc \cup {date_str} |->
                          IF d = date_str THEN close ELSE acc[d]])
             ELSE PriceByDate(Tail(rows), acc)

EmptyMap == [d \in {} |-> None]

\* sorted(keys): ascending by string comparison
RECURSIVE Sorted(_)
Sorted(S) ==
    IF S = {} THEN <<>>
    ELSE LET m == CHOOSE x \in S : \A y \in S : StrLE(x, y)
         IN  <<m>> \o Sorted(S \ {m})

RECURSIVE ScanOnDate(_, _, _, _)
ScanOnDate(price_by_date, sorted_dates, target_date, i) ==
    IF i = 0 THEN None
    ELSE IF StrLE(sorted_dates[i], target_date)
         THEN price_by_date[sorted_dates[i]]
         ELSE ScanOnDate(price_by_date, sorted_dates, target_date, i - 1)

\* a plausible slip: the scan runs forward, so the first (least) date that is
\* <= target wins
RECURSIVE ScanForwardLE(_, _, _, _)
ScanForwardLE(price_by_date, sorted_dates, target_date, i) ==
    IF i > Len(sorted_dates) THEN None
    ELSE IF StrLE(sorted_dates[i], target_date)
         THEN price_by_date[sorted_dates[i]]
         ELSE ScanForwardLE(price_by_date, sorted_dates, target_date, i + 1)

find_price_on_date_forward(price_by_date, sorted_dates, target_date) ==
    IF target_date \in DOMAIN price_by_date
    THEN price_by_date[target_date]
    ELSE ScanForwardLE(price_by_date, sorted_dates, target_date, 1)

find_price_on_date(price_by_date, sorted_dates, target_date) ==
    IF target_date \in DOMAIN price_by_date
    THEN price_by_date[target_date]
    ELSE ScanOnDate(price_by_date, sorted_dates, target_date, Len(sorted_dates))

RECURSIVE ScanOnOrAfter(_, _, _, _)
ScanOnOrAfter(price_by_date, sorted_dates, target_date, i) ==
    IF i > Len(sorted_dates) THEN None
    ELSE IF StrLE(target_date, sorted_dates[i])
         THEN price_by_date[sorted_dates[i]]
         ELSE ScanOnOrAfter(price_by_date, sorted_dates, target_date, i + 1)


\* the other date policy: the close on or before the target
find_price_on_or_before(price_by_date, sorted_dates, target_date) ==
    find_price_on_date(price_by_date, sorted_dates, target_date)

find_price_on_or_after_date(price_by_date, sorted_dates, target_date) ==
    IF target_date \in DOMAIN price_by_date
    THEN price_by_date[target_date]
    ELSE ScanOnOrAfter(price_by_date, sorted_dates, target_date, 1)

\* get_quarterly_prices: an OrderedDict keyed by date_str[:7]; assigning to a
\* key that exists keeps its place
\* a dict that re-inserts: assigning to a key that exists moves it to the end
MonthlyPutMoveToEnd(monthly, ym, close) ==
    SelectSeq(monthly, LAMBDA pair : pair[1] # ym) \o <<<<ym, close>>>>

RECURSIVE MonthlyPut(_, _, _)
MonthlyPut(monthly, ym, close) ==
    IF monthly = <<>> THEN <<<<ym, close>>>>
    ELSE IF Head(monthly)[1] = ym THEN <<<<ym, close>>>> \o Tail(monthly)
    ELSE <<Head(monthly)>> \o MonthlyPut(Tail(monthly), ym, close)

RECURSIVE QuarterlyLoop(_, _)
QuarterlyLoop(price_rows, monthly) ==
    IF price_rows = <<>> THEN monthly
    ELSE LET row      == Head(price_rows)
             date_str == Strip(Get(row, "Date", <<>>))
             close    == to_float(Get(row, "Close", <<>>))
         IN  IF date_str = <<>> \/ close = None
             THEN QuarterlyLoop(Tail(price_rows), monthly)
             ELSE QuarterlyLoop(Tail(price_rows),
                                MonthlyPut(monthly, Prefix(date_str, 7), close))

get_quarterly_prices(price_rows) == QuarterlyLoop(price_rows, <<>>)

-----------------------------------------------------------------------------
(* Field catalog *)

FINANCE_NUM_FIELDS ==
    <<"Sales", "OP", "OdP", "NP", "EPS", "DEPS",
      "TA", "Eq", "EqAR", "BPS",
      "CFO", "CFI", "CFF", "CashEq",
      "DivAnn", "FDivAnn", "FPayoutRatioAnn",
      "FSales", "FOP", "FOdP", "FNP", "FEPS",
      "NxFSales", "NxFOP", "NxFOdP", "NxFNp", "NxFEPS">>

FINANCE_STR_FIELDS == <<"CurFYEn", "DiscDate", "NxtFYEn">>

Range(s) == {s[i] : i \in 1 .. Len(s)}

NumFields == Range(FINANCE_NUM_FIELDS)

StrFields == Range(FINANCE_STR_FIELDS)

-----------------------------------------------------------------------------
(* Latest value of each field *)

\* for row in reversed(finance_rows): the first non-empty stripped value
RECURSIVE ResolveStr(_, _, _)
ResolveStr(finance_rows, field, i) ==
    IF i = 0 THEN None
    ELSE LET v == Strip(Get(finance_rows[i], field, <<>>))
         IN  IF v # <<>> THEN v ELSE ResolveStr(finance_rows, field, i - 1)

\* a resolver that also skips a parsed zero for EPS, BPS and CFO
RECURSIVE ResolveNumIdxZeroExcluded(_, _, _)
ResolveNumIdxZeroExcluded(finance_rows, field, i) ==
    IF i = 0 THEN 0
    ELSE LET v == to_float(Get(finance_rows[i], field, <<>>))
         IN  IF v # None /\ ~(field \in {"EPS", "BPS", "CFO"} /\ v = Zero)
             THEN i
             ELSE ResolveNumIdxZeroExcluded(finance_rows, field, i - 1)

\* a resolver that takes every field from the most recent record
ResolveNumIdxLastRow(finance_rows, field, i) ==
    IF i = 0 THEN 0
    ELSE IF to_float(Get(finance_rows[i], field, <<>>)) # None THEN i ELSE 0

\* for row in reversed(finance_rows): the index of the first row whose value
\* parses (0: no row); row.get(field) is None for a missing column, and
\* to_float(None) is None like to_float('')
RECURSIVE ResolveNumIdx(_, _, _)
ResolveNumIdx(finance_rows, field, i) ==
    IF i = 0 THEN 0
    ELSE IF to_float(Get(finance_rows[i], field, <<>>)) # None THEN i
         ELSE ResolveNumIdx(finance_rows, field, i - 1)

LatestFinance(finance_rows) ==
    [field \in StrFields \cup NumFields |->
        IF field \in StrFields
        THEN ResolveStr(finance_rows, field, Len(finance_rows))
        ELSE LET i == ResolveNumIdx(finance_rows, field, Len(finance_rows))
             IN  IF i = 0 THEN None
                 ELSE to_float(Get(finance_rows[i], field, <<>>))]

FieldDiscDates(finance_rows) ==
    LET Idx(field) == ResolveNumIdx(finance_rows, field, Len(finance_rows))
        Date(field) == Strip(Get(finance_rows[Idx(field)], "DiscDate", <<>>))
    IN  [field \in {f \in NumFields : Idx(f) # 0 /\ Date(f) # <<>>} |->
            Date(field)]


-----------------------------------------------------------------------------
(* Snapshot ratios: process_stock, lines 175-275 *)

\* a uniform reference price: the close of the greatest date
disc_price_latest(field_name, field_disc_dates, price_by_date, sorted_dates) ==
    price_by_date[sorted_dates[Len(sorted_dates)]]

disc_price(field_name, field_disc_dates, price_by_date, sorted_dates) ==
    IF field_name \in DOMAIN field_disc_dates
    THEN find_price_on_or_after_date(price_by_date, sorted_dates,
                                     field_disc_dates[field_name])
    ELSE None

snap_cf_total(cfo_v, cfi_v, cff_v) ==
    IF cfo_v # None /\ cfi_v # None /\ cff_v # None
    THEN Add(Add(cfo_v, cfi_v), cff_v)
    ELSE None

snap_per(eps, p) ==
    IF Truthy(eps) /\ Truthy(p) THEN Round2(Div(p, eps)) ELSE None

snap_pbr(bps, p) ==
    IF Truthy(bps) /\ Truthy(p) THEN Round2(Div(p, bps)) ELSE None

snap_roe(eps, bps) ==
    IF eps # None /\ Truthy(bps)
    THEN Round2(Mul(Div(eps, bps), Hundred))
    ELSE None

snap_pcfr(cfo, eps, np_val, p) ==
    IF Truthy(cfo) /\ Truthy(eps) /\ Truthy(np_val)
    THEN LET shares == FAbs(Div(np_val, eps))
         IN  IF IsFault(shares) THEN Fault
             ELSE IF Gt0(shares)
             THEN LET cfps == Div(cfo, shares)
                  IN  IF IsFault(cfps) THEN Fault
                      ELSE IF cfps # Zero /\ Truthy(p)
                      THEN Round2(Div(p, cfps))
                      ELSE None
             ELSE None
    ELSE None

snap_div_yield(div_ann, p) ==
    IF Truthy(div_ann) /\ Truthy(p)
    THEN Round2(Mul(Div(div_ann, p), Hundred))
    ELSE None

snap_roa(np_val, ta) ==
    IF np_val # None /\ Truthy(ta)
    THEN Round2(Mul(Div(np_val, ta), Hundred))
    ELSE None

snap_market_cap(eps, np_val, p) ==
    IF Truthy(eps) /\ np_val # None
    THEN LET shares == FAbs(Div(np_val, eps))
         IN  IF IsFault(shares) THEN Fault
             ELSE IF Gt0(shares) /\ Truthy(p)
             THEN Round0(Mul(p, shares))
             ELSE None
    ELSE None

snap_fper(feps, p) ==
    IF Truthy(feps) /\ Truthy(p) THEN Round2(Div(p, feps)) ELSE None

snap_psr(market_cap, sales) ==
    IF IsFault(market_cap) THEN Fault
    ELSE IF Truthy(market_cap) /\ Truthy(sales)
    THEN Round2(Div(market_cap, sales))
    ELSE None

\* cash_eq or 0
OrZero(x) == IF Truthy(x) THEN x ELSE Zero

\* the EV/EBITDA of the snapshot without its test of ev > 0
snap_ev_ebitda_unguarded(market_cap, op_val, cash_eq) ==
    IF IsFault(market_cap) THEN Fault
    ELSE IF Truthy(market_cap) /\ Truthy(op_val)
    THEN Round2(Div(Sub(market_cap, OrZero(cash_eq)), op_val))
    ELSE None

snap_ev_ebitda(market_cap, op_val, cash_eq) ==
    IF IsFault(market_cap) THEN Fault
    ELSE IF Truthy(market_cap) /\ Truthy(op_val)
    THEN LET ev == Sub(market_cap, OrZero(cash_eq))
         IN  IF Gt0(ev) THEN Round2(Div(ev, op_val)) ELSE None
    ELSE None

Snapshot(latest_finance, field_disc_dates, price_by_date, sorted_dates) ==
    LET P(f) == disc_price(f, field_disc_dates, price_by_date, sorted_dates)
        eps    == latest_finance["EPS"]
        bps    == latest_finance["BPS"]
        np_val == latest_finance["NP"]
        cfo    == latest_finance["CFO"]
        market_cap == snap_market_cap(eps, np_val, P("EPS"))
    IN  [CFTotal   |-> snap_cf_total(latest_finance["CFO"],
                                     latest_finance["CFI"],
                                     latest_finance["CFF"]),
         per       |-> snap_per(eps, P("EPS")),
         pbr       |-> snap_pbr(bps, P("BPS")),
         roe       |-> snap_roe(eps, bps),
         pcfr      |-> snap_pcfr(cfo, eps, np_val, P("CFO")),
         DivYield  |-> snap_div_yield(latest_finance["DivAnn"], P("DivAnn")),
         FDivYield |-> snap_div_yield(latest_finance["FDivAnn"], P("FDivAnn")),
         roa       |-> snap_roa(np_val, latest_finance["TA"]),
         MarketCap |-> market_cap,
         fper      |-> snap_fper(latest_finance["FEPS"], P("FEPS")),
         psr       |-> snap_psr(market_cap, latest_finance["Sales"]),
         ev_ebitda |-> snap_ev_ebitda(market_cap, latest_finance["OP"],
                                      latest_finance["CashEq"])]

RatioKeys ==
    {"per", "pbr", "roe", "pcfr", "DivYield", "FDivYield", "roa", "MarketCap",
     "fper", "psr", "ev_ebitda", "CFTotal"}


-----------------------------------------------------------------------------
(* One row of the history: process_stock, lines 286-431 *)

entry_per(price_at, entry_eps) ==
    IF Truthy(price_at) /\ Truthy(entry_eps)
    THEN Round2(Div(price_at, entry_eps))
    ELSE None

entry_pbr(price_at, entry_bps) ==
    IF Truthy(price_at) /\ Truthy(entry_bps)
    THEN Round2(Div(price_at, entry_bps))
    ELSE None

entry_roe(entry_eps, entry_bps) ==
    IF entry_eps # None /\ Truthy(entry_bps)
    THEN Round2(Mul(Div(entry_eps, entry_bps), Hundred))
    ELSE None

entry_pcfr(price_at, entry_cfo, entry_eps, entry_np) ==
    IF Truthy(price_at) /\ Truthy(entry_cfo) /\ Truthy(entry_eps)
       /\ Truthy(entry_np)
    THEN LET entry_shares == FAbs(Div(entry_np, entry_eps))
         IN  IF IsFault(entry_shares) THEN Fault
             ELSE IF Gt0(entry_shares)
             THEN LET entry_cfps == Div(entry_cfo, entry_shares)
                  IN  IF IsFault(entry_cfps) THEN Fault
                      ELSE IF entry_cfps # Zero
                      THEN Round2(Div(price_at, entry_cfps))
                      ELSE None
             ELSE None
    ELSE None

entry_market_cap(price_at, entry_eps, entry_np) ==
    IF Truthy(price_at) /\ Truthy(entry_eps) /\ Truthy(entry_np)
    THEN LET entry_shares == FAbs(Div(entry_np, entry_eps))
         IN  IF IsFault(entry_shares) THEN Fault
             ELSE IF Gt0(entry_shares)
             THEN Round0(Mul(price_at, entry_shares))
             ELSE None
    ELSE None

\* the ROA of a row without its test of entry_ta
entry_roa_unguarded(entry_np, entry_ta) ==
    IF entry_np # None
    THEN Round2(Mul(Div(entry_np, entry_ta), Hundred))
    ELSE None

entry_roa(entry_np, entry_ta) ==
    IF entry_np # None /\ Truthy(entry_ta)
    THEN Round2(Mul(Div(entry_np, entry_ta), Hundred))
    ELSE None

entry_div_yield(entry_div_ann, price_at) ==
    IF Truthy(entry_div_ann) /\ Truthy(price_at)
    THEN Round2(Mul(Div(entry_div_ann, price_at), Hundred))
    ELSE None

entry_fper(entry_feps, price_at) ==
    IF Truthy(entry_feps) /\ Truthy(price_at)
    THEN Round2(Div(price_at, entry_feps))
    ELSE None

entry_psr(market_cap, entry_sales) ==
    IF IsFault(market_cap) THEN Fault
    ELSE IF Truthy(market_cap) /\ Truthy(entry_sales)
    THEN Round2(Div(market_cap, entry_sales))
    ELSE None

entry_ev_ebitda(market_cap, entry_op, entry_cashEq) ==
    IF IsFault(market_cap) THEN Fault
    ELSE IF Truthy(market_cap) /\ Truthy(entry_op)
    THEN LET entry_ev == Sub(market_cap, OrZero(entry_cashEq))
         IN  IF Gt0(entry_ev) THEN Round2(Div(entry_ev, entry_op)) ELSE None
    ELSE None

entry_cf_total(entry_cfo, entry_cfi, entry_cff) ==
    IF entry_cfo # None /\ entry_cfi # None /\ entry_cff # None
    THEN Add(Add(entry_cfo, entry_cfi), entry_cff)
    ELSE None

\* the row appended to finance_history for a record whose stripped DiscDate
\* is date and whose reference price is price_at; element i of the Python list
\* is element i + 1 here
HistoryEntry(row, date, price_at) ==
    LET F(field) == to_float(Get(row, field, <<>>))
        mc       == entry_market_cap(price_at, F("EPS"), F("NP"))
    IN  << date,
           F("NP"),
           entry_per(price_at, F("EPS")),
           entry_pbr(price_at, F("BPS")),
           entry_roe(F("EPS"), F("BPS")),
           entry_pcfr(price_at, F("CFO"), F("EPS"), F("NP")),
           F("Sales"),
           F("OP"),
           F("OdP"),
           F("EPS"),
           F("BPS"),
           F("CFO"),
           F("CashEq"),
           mc,
           Strip(Get(row, "CurFYEn", <<>>)),
           F("TA"),
           F("Eq"),
           F("EqAR"),
           F("CFI"),
           F("CFF"),
           F("DivAnn"),
           F("DEPS"),
           entry_roa(F("NP"), F("TA")),
           entry_div_yield(F("DivAnn"), price_at),
           entry_fper(F("FEPS"), price_at),
           entry_psr(mc, F("Sales")),
           entry_ev_ebitda(mc, F("OP"), F("CashEq")),
           F("FDivAnn"),
           F("FPayoutRatioAnn"),
           F("FSales"),
           F("FOP"),
           F("FOdP"),
           F("FNP"),
           F("FEPS"),
           F("NxFSales"),
           F("NxFOP"),
           F("NxFOdP"),
           F("NxFNp"),
           F("NxFEPS"),
           entry_div_yield(F("FDivAnn"), price_at),
           entry_cf_total(F("CFO"), F("CFI"), F("CFF")) >>

\* element i of a Python list held as a sequence
At(list, i) == list[i + 1]

\* a record is skipped when its raw DiscDate is empty, whitespace not stripped
HasDiscDateRaw(row) == Get(row, "DiscDate", <<>>) # <<>>

\* lines 282-284: the test that keeps a record in the history
HasDiscDate(row) == Strip(Get(row, "DiscDate", <<>>)) # <<>>


-----------------------------------------------------------------------------
(* Inputs *)

\* price rows
PriceMar30 ==
    [Date |-> <<"2", "0", "2", "3", "-", "0", "3", "-", "3", "0">>,
     Close |-> <<"1", "0", "0", "0">>]

PriceJun30 ==
    [Date |-> <<"2", "0", "2", "3", "-", "0", "6", "-", "3", "0">>,
     Close |-> <<"1", "1", "0", "0">>]

\* a close of zero, the date padded
PriceZero ==
    [Date |-> <<" ", "2", "0", "2", "3", "-", "0", "3", "-", "3", "1", " ">>,
     Close |-> <<"0">>]

\* an unparsable close: the row is dropped
PriceBad ==
    [Date |-> <<"2", "0", "2", "3", "-", "0", "6", "-", "3", "0">>,
     Close |-> <<"x">>]

\* the disclosure of the spec's concrete scenario
DisclosureScenario ==
    [DiscDate |-> <<"2", "0", "2", "3", "-", "0", "3", "-", "3", "1">>,
     EPS |-> <<"5", "0">>, BPS |-> <<"5", "0", "0">>,
     NP |-> <<"1", "0", "0", "0", "0", "0">>,
     CFO |-> <<"6", "0", "0", "0", "0">>,
     Sales |-> <<"2", "0", "0", "0", "0", "0", "0">>,
     OP |-> <<"8", "0", "0", "0", "0">>,
     TA |-> <<"1", "0", "0", "0", "0", "0", "0">>]

\* a padded date that is a price date; BPS blank, CFO unparsable
DisclosurePadded ==
    [DiscDate |-> <<" ", "2", "0", "2", "3", "-", "0", "3", "-", "3", "0", " ">>,
     EPS |-> <<"4", "0">>, BPS |-> <<>>, NP |-> <<" ", "8", "0", " ">>,
     CFO |-> <<"x">>, DivAnn |-> <<"1", "0">>,
     CurFYEn |-> <<" ", "2", "0", "2", "3", "-", "0", "3", " ">>,
     FEPS |-> <<"2", ".", "5">>]

\* zeros in the most recent fields
DisclosureZeros ==
    [DiscDate |-> <<"2", "0", "2", "3", "-", "0", "6", "-", "3", "0">>,
     EPS |-> <<"0">>, BPS |-> <<"0">>, NP |-> <<"0">>, CFO |-> <<"0">>,
     CurFYEn |-> <<"2", "0", "2", "4", "-", "0", "3">>]

\* EPS blank, the rest of the row valid
DisclosureBlankEPS ==
    [DiscDate |-> <<"2", "0", "2", "3", "-", "0", "6", "-", "3", "0">>,
     EPS |-> <<>>, BPS |-> <<"4", "0", "0">>, NP |-> <<"1", "0", "0">>,
     CFO |-> <<"6", "0">>, Sales |-> <<"2", "0", "0">>, OP |-> <<"8">>,
     CashEq |-> <<"5">>]

\* an empty DiscDate
DisclosureNoDate ==
    [DiscDate |-> <<>>, EPS |-> <<"-", "5">>, NP |-> <<"2", "0">>,
     TA |-> <<"0">>, NxtFYEn |-> <<"2", "0", "2", "5", "-", "0", "3">>]

\* a DiscDate of whitespace only; no EPS column at all
DisclosureBlankDate ==
    [DiscDate |-> <<" ", " ">>, NP |-> <<"7">>, FDivAnn |-> <<"3">>]

\* every field of the ratios valid
RatioAllValid ==
    [DiscDate |-> <<"2", "0", "2", "3", "-", "0", "3", "-", "3", "0">>,
     EPS |-> <<"5">>, BPS |-> <<"5", "0">>, NP |-> <<"1", "0", "0">>,
     CFO |-> <<"6", "0">>, Sales |-> <<"2", "0", "0">>, OP |-> <<"8">>,
     TA |-> <<"1", "0", "0", "0">>, DivAnn |-> <<"2">>,
     FDivAnn |-> <<"3">>, FEPS |-> <<"4">>, CashEq |-> <<"1", "0">>,
     CFI |-> <<"-", "1">>, CFF |-> <<"7">>]

\* every independent denominator zero
RatioZeroDenominators ==
    [DiscDate |-> <<"2", "0", "2", "3", "-", "0", "3", "-", "3", "0">>,
     EPS |-> <<"5">>, NP |-> <<"1", "0", "0">>, CFO |-> <<"6", "0">>,
     BPS |-> <<"0">>, TA |-> <<"0">>, FEPS |-> <<"0">>,
     Sales |-> <<"0">>, OP |-> <<"0">>, DivAnn |-> <<"0">>,
     FDivAnn |-> <<"0">>, CashEq |-> <<"0">>]

RatioZeroEPS ==
    [DiscDate |-> <<"2", "0", "2", "3", "-", "0", "3", "-", "3", "0">>,
     EPS |-> <<"0">>, BPS |-> <<"5", "0">>, NP |-> <<"1", "0", "0">>,
     CFO |-> <<"6", "0">>, Sales |-> <<"2", "0", "0">>, OP |-> <<"8">>,
     TA |-> <<"1", "0", "0", "0">>]

\* NP zero: the estimated share count is zero
RatioZeroNP ==
    [DiscDate |-> <<"2", "0", "2", "3", "-", "0", "3", "-", "3", "0">>,
     EPS |-> <<"5">>, BPS |-> <<"5", "0">>, NP |-> <<"0">>,
     CFO |-> <<"6", "0">>, Sales |-> <<"2", "0", "0">>, OP |-> <<"8">>,
     TA |-> <<"1", "0", "0", "0">>]

RatioZeroCFO ==
    [DiscDate |-> <<"2", "0", "2", "3", "-", "0", "3", "-", "3", "0">>,
     EPS |-> <<"5">>, NP |-> <<"1", "0", "0">>, CFO |-> <<"0">>,
     CFI |-> <<"3">>, CFF |-> <<"4">>]

\* nothing but a date
RatioBlank ==
    [DiscDate |-> <<"2", "0", "2", "3", "-", "0", "3", "-", "3", "0">>]

\* negative values
RatioNegative ==
    [DiscDate |-> <<"2", "0", "2", "3", "-", "0", "3", "-", "3", "0">>,
     EPS |-> <<"-", "5">>, BPS |-> <<"-", "5", "0">>,
     NP |-> <<"-", "1", "0", "0">>, CFO |-> <<"-", "6", "0">>,
     Sales |-> <<"2", "0", "0">>, OP |-> <<"-", "8">>,
     TA |-> <<"-", "1", "0", "0", "0">>, DivAnn |-> <<"-", "2">>,
     FEPS |-> <<"-", "4">>, CashEq |-> <<"-", "1", "0">>]

\* cash above the market capitalization of any modelled price
RatioCashAbove ==
    [DiscDate |-> <<"2", "0", "2", "3", "-", "0", "3", "-", "3", "0">>,
     EPS |-> <<"5">>, NP |-> <<"1", "0", "0">>, OP |-> <<"8">>,
     Sales |-> <<"2", "0", "0">>,
     CashEq |-> <<"9", "9", "9", "9", "9", "9">>]

\* cash equal to the market capitalization at a price of 1000
RatioCashEqual ==
    [DiscDate |-> <<"2", "0", "2", "3", "-", "0", "3", "-", "3", "0">>,
     EPS |-> <<"5">>, NP |-> <<"1", "0", "0">>, OP |-> <<"8">>,
     CashEq |-> <<"2", "0", "0", "0", "0">>]

\* a share estimate below one half: MarketCap rounds to 0
RatioFewShares ==
    [DiscDate |-> <<"2", "0", "2", "3", "-", "0", "3", "-", "3", "0">>,
     EPS |-> <<"4", "0", "0", "0">>, NP |-> <<"1">>,
     CFO |-> <<"6", "0">>, OP |-> <<"8">>, Sales |-> <<"2", "0", "0">>]

\* a price dated before the disclosures of the ratio rows
PriceEarlier ==
    [Date |-> <<"2", "0", "2", "3", "-", "0", "1", "-", "0", "4">>,
     Close |-> <<"9", "0", "0">>]

MaxFinRows == 2

MaxPriceRows == 2

SeqsUpTo(S, n) == UNION {[1 .. k -> S] : k \in 0 .. n}

PriceRowSet == {PriceMar30, PriceJun30, PriceZero, PriceBad}

DateRowSet ==
    {DisclosureScenario, DisclosurePadded, DisclosureZeros, DisclosureBlankEPS,
     DisclosureNoDate, DisclosureBlankDate}

RatioRowSet ==
    {RatioAllValid, RatioZeroDenominators, RatioZeroEPS, RatioZeroNP,
     RatioZeroCFO, RatioBlank, RatioNegative, RatioCashAbove, RatioCashEqual,
     RatioFewShares}

RatioPriceInputs ==
    {<<PriceMar30>>, <<PriceZero, PriceJun30>>, <<PriceEarlier>>,
     <<[Date |-> PriceMar30.Date, Close |-> PriceZero.Close]>>}


-----------------------------------------------------------------------------
(* State *)

VARIABLES
    pc,                \* where process_stock (or the function under test) is
    finance_rows,      \* read_csv(finance_path)
    price_rows,        \* read_csv(price_path)
    price_by_date,
    sorted_dates,
    latest_price,
    latest_finance,
    field_disc_dates,
    snap,              \* the computed ratios of the snapshot
    idx,               \* position of the history loop in finance_rows
    price_at,          \* the reference price of the last row appended
    finance_history,
    monthly_prices,
    result,            \* the returned dict without 'code' and 'name'
    target_date,       \* argument of find_price_on_date
    found              \* what find_price_on_date returned

vars ==
    <<pc, finance_rows, price_rows, price_by_date, sorted_dates, latest_price,
      latest_finance, field_disc_dates, snap, idx, price_at, finance_history,
      monthly_prices, result, target_date, found>>

Unset ==
    /\ price_by_date = EmptyMap
    /\ sorted_dates = <<>>
    /\ latest_price = None
    /\ latest_finance = EmptyMap
    /\ field_disc_dates = EmptyMap
    /\ snap = EmptyMap
    /\ idx = 0
    /\ price_at = None
    /\ finance_history = <<>>
    /\ monthly_prices = <<>>
    /\ result = EmptyMap
    /\ found = None

\* process_stock is entered with the rows of the two files
Init ==
    /\ pc = "start"
    /\ \/ /\ finance_rows \in SeqsUpTo(DateRowSet, MaxFinRows)
          /\ price_rows \in SeqsUpTo(PriceRowSet, MaxPriceRows)
       \/ /\ finance_rows \in SeqsUpTo(RatioRowSet, MaxFinRows)
          /\ price_rows \in RatioPriceInputs
    /\ target_date = <<>>
    /\ Unset

-----------------------------------------------------------------------------
(* process_stock *)

\* lines 131-147
BuildPriceIndex ==
    /\ pc = "start"
    /\ LET pbd == PriceByDate(price_rows, EmptyMap)
           sd  == Sorted(DOMAIN pbd)
       IN  IF finance_rows = <<>> \/ price_rows = <<>> \/ sd = <<>>
           THEN /\ pc' = "skipped"
                /\ UNCHANGED <<price_by_date, sorted_dates, latest_price>>
           ELSE /\ pc' = "resolve"
                /\ price_by_date' = pbd
                /\ sorted_dates' = sd
                /\ latest_price' = pbd[sd[Len(sd)]]
    /\ UNCHANGED <<finance_rows, price_rows, latest_finance, field_disc_dates,
                   snap, idx, price_at, finance_history, monthly_prices,
                   result, target_date, found>>

\* lines 149-173
ResolveLatest ==
    /\ pc = "resolve"
    /\ latest_finance' = LatestFinance(finance_rows)
    /\ field_disc_dates' = FieldDiscDates(finance_rows)
    /\ pc' = "ratios"
    /\ UNCHANGED <<finance_rows, price_rows, price_by_date, sorted_dates,
                   latest_price, snap, idx, price_at, finance_history,
                   monthly_prices, result, target_date, found>>

\* lines 175-275; a division fault leaves process_stock by an exception
ComputeRatios ==
    /\ pc = "ratios"
    /\ \E r \in {Snapshot(latest_finance, field_disc_dates, price_by_date,
                          sorted_dates)} :
           /\ snap' = r
           /\ pc' = IF \E k \in RatioKeys : IsFault(r[k])
                    THEN "raised" ELSE "history"
    /\ idx' = 1
    /\ UNCHANGED <<finance_rows, price_rows, price_by_date, sorted_dates,
                   latest_price, latest_finance, field_disc_dates, price_at,
                   finance_history, monthly_prices, result, target_date, found>>

\* the elements of a history row that are numbers
NumericPositions == (1 .. 41) \ {1, 15}

\* a history loop that fills a blank EPS from the most recent record holding
\* one, as the snapshot does
HistoryRowResolved ==
    /\ pc = "history"
    /\ idx <= Len(finance_rows)
    /\ LET own  == finance_rows[idx]
           src  == ResolveNumIdx(finance_rows, "EPS", Len(finance_rows))
           row  == IF to_float(Get(own, "EPS", <<>>)) = None /\ src # 0
                   THEN [f \in DOMAIN own \cup {"EPS"} |->
                           IF f = "EPS" THEN finance_rows[src]["EPS"]
                           ELSE own[f]]
                   ELSE own
           date == Strip(Get(row, "DiscDate", <<>>))
           p    == find_price_on_or_after_date(price_by_date, sorted_dates, date)
       IN  IF ~HasDiscDate(row)
           THEN UNCHANGED <<pc, price_at, finance_history>>
           ELSE /\ price_at' = p
                /\ \E e \in {HistoryEntry(row, date, p)} :
                      IF \E i \in NumericPositions : IsFault(e[i])
                      THEN /\ pc' = "raised"
                           /\ UNCHANGED finance_history
                      ELSE /\ pc' = "history"
                           /\ finance_history' = Append(finance_history, e)
    /\ idx' = idx + 1
    /\ UNCHANGED <<finance_rows, price_rows, price_by_date, sorted_dates,
                   latest_price, latest_finance, field_disc_dates, snap,
                   monthly_prices, result, target_date, found>>

\* lines 281-431: one iteration of the loop over finance_rows
HistoryRow ==
    /\ pc = "history"
    /\ idx <= Len(finance_rows)
    /\ LET row  == finance_rows[idx]
           date == Strip(Get(row, "DiscDate", <<>>))
           p    == find_price_on_or_after_date(price_by_date, sorted_dates, date)
       IN  IF ~HasDiscDate(row)
           THEN UNCHANGED <<pc, price_at, finance_history>>
           ELSE /\ price_at' = p
                /\ \E e \in {HistoryEntry(row, date, p)} :
                      IF \E i \in NumericPositions : IsFault(e[i])
                      THEN /\ pc' = "raised"
                           /\ UNCHANGED finance_history
                      ELSE /\ pc' = "history"
                           /\ finance_history' = Append(finance_history, e)
    /\ idx' = idx + 1
    /\ UNCHANGED <<finance_rows, price_rows, price_by_date, sorted_dates,
                   latest_price, latest_finance, field_disc_dates, snap,
                   monthly_prices, result, target_date, found>>

\* lines 433-468
BuildResult ==
    /\ pc = "history"
    /\ idx > Len(finance_rows)
    /\ monthly_prices' = get_quarterly_prices(price_rows)
    /\ result' =
          [k \in {"price", "ph", "fh"} \cup StrFields \cup NumFields
                 \cup RatioKeys |->
              IF k = "price" THEN latest_price
              ELSE IF k = "ph" THEN get_quarterly_prices(price_rows)
              ELSE IF k = "fh" THEN finance_history
              ELSE IF k \in RatioKeys THEN snap[k]
              ELSE latest_finance[k]]
    /\ pc' = "done"
    /\ UNCHANGED <<finance_rows, price_rows, price_by_date, sorted_dates,
                   latest_price, latest_finance, field_disc_dates, snap, idx,
                   price_at, finance_history, target_date, found>>

Next == BuildPriceIndex \/ ResolveLatest \/ ComputeRatios \/ HistoryRow \/ BuildResult

Spec == Init /\ [][Next]_vars


-----------------------------------------------------------------------------
(* find_price_on_date, applied to an index built as process_stock builds it *)

PriceApr28 ==
    [Date |-> <<"2", "0", "2", "3", "-", "0", "4", "-", "2", "8">>,
     Close |-> <<"1", "0", "5", "0">>]

\* a second row for 2023-03-30: the later row's close replaces the earlier
PriceMar30Again ==
    [Date |-> <<"2", "0", "2", "3", "-", "0", "3", "-", "3", "0">>,
     Close |-> <<"9", "0", "0">>]

LookupRowSet == {PriceMar30, PriceApr28, PriceJun30, PriceMar30Again}

TargetDates ==
    {<<"2", "0", "2", "3", "-", "0", "1", "-", "0", "4">>,
     <<"2", "0", "2", "3", "-", "0", "3", "-", "3", "0">>,
     <<"2", "0", "2", "3", "-", "0", "3", "-", "3", "1">>,
     <<"2", "0", "2", "3", "-", "0", "5", "-", "1", "5">>,
     <<"2", "0", "2", "3", "-", "0", "6", "-", "3", "0">>,
     <<"2", "0", "2", "3", "-", "1", "2", "-", "2", "9">>}

MaxLookupRows == 3

InitLookup ==
    /\ pc = "lookup_start"
    /\ price_rows \in SeqsUpTo(LookupRowSet, MaxLookupRows)
    /\ target_date \in TargetDates
    /\ finance_rows = <<>>
    /\ Unset

\* lines 135-142
LookupIndex ==
    /\ pc = "lookup_start"
    /\ price_by_date' = PriceByDate(price_rows, EmptyMap)
    /\ sorted_dates' = Sorted(DOMAIN PriceByDate(price_rows, EmptyMap))
    /\ pc' = "lookup_call"
    /\ UNCHANGED <<finance_rows, price_rows, latest_price, latest_finance,
                   field_disc_dates, snap, idx, price_at, finance_history,
                   monthly_prices, result, target_date, found>>

LookupCall ==
    /\ pc = "lookup_call"
    /\ found' = find_price_on_date(price_by_date, sorted_dates, target_date)
    /\ pc' = "lookup_done"
    /\ UNCHANGED <<finance_rows, price_rows, price_by_date, sorted_dates,
                   latest_price, latest_finance, field_disc_dates, snap, idx,
                   price_at, finance_history, monthly_prices, result,
                   target_date>>

NextLookup == LookupIndex \/ LookupCall

SpecLookup == InitLookup /\ [][NextLookup]_vars

-----------------------------------------------------------------------------
(* get_quarterly_prices on price rows in any order *)

PriceMar31 ==
    [Date |-> <<" ", "2", "0", "2", "3", "-", "0", "3", "-", "3", "1">>,
     Close |-> <<"1", "0", "1", "0">>]

PriceMar01 ==
    [Date |-> <<"2", "0", "2", "3", "-", "0", "3", "-", "0", "1">>,
     Close |-> <<"9", "9", "0">>]

PriceNoDate ==
    [Date |-> <<" ", " ">>,
     Close |-> <<"5">>]

PriceJun29Bad ==
    [Date |-> <<"2", "0", "2", "3", "-", "0", "6", "-", "2", "9">>,
     Close |-> <<>>]

MonthlyRowSet ==
    {PriceMar30, PriceMar31, PriceMar01, PriceJun30, PriceNoDate, PriceJun29Bad}

MaxMonthlyRows == 3

InitMonthly ==
    /\ pc = "monthly_start"
    /\ price_rows \in SeqsUpTo(MonthlyRowSet, MaxMonthlyRows)
    /\ target_date = <<>>
    /\ finance_rows = <<>>
    /\ Unset

MonthlyCall ==
    /\ pc = "monthly_start"
    /\ monthly_prices' = get_quarterly_prices(price_rows)
    /\ pc' = "monthly_done"
    /\ UNCHANGED <<finance_rows, price_rows, price_by_date, sorted_dates,
                   latest_price, latest_finance, field_disc_dates, snap, idx,
                   price_at, finance_history, result, target_date, found>>

NextMonthly == MonthlyCall

SpecMonthly == InitMonthly /\ [][NextMonthly]_vars


-----------------------------------------------------------------------------
(* Vocabulary of the properties, stated on the inputs and not through the   *)
(* operators above                                                          *)

Before(d, e) == d # e /\ StrLE(d, e)

Least(S) == CHOOSE m \in S : \A y \in S : StrLE(m, y)

Greatest(S) == CHOOSE m \in S : \A y \in S : StrLE(y, m)

Max(S) == CHOOSE m \in S : \A y \in S : y <= m

Min(S) == CHOOSE m \in S : \A y \in S : m <= y

\* the close on date d, else of the greatest known date before d, else None
CloseOnOrBefore(d) ==
    LET earlier == {x \in DOMAIN price_by_date : Before(x, d)}
    IN  IF d \in DOMAIN price_by_date THEN price_by_date[d]
        ELSE IF earlier # {} THEN price_by_date[Greatest(earlier)]
        ELSE None

\* the close on date d, else of the least known date after d, else None
CloseOnOrAfter(d) ==
    LET later == {x \in DOMAIN price_by_date : Before(d, x)}
    IN  IF d \in DOMAIN price_by_date THEN price_by_date[d]
        ELSE IF later # {} THEN price_by_date[Least(later)]
        ELSE None

Cell(i, field) ==
    IF field \in DOMAIN finance_rows[i] THEN finance_rows[i][field] ELSE <<>>

TrimmedDate(i) == Strip(Cell(i, "DiscDate"))

Parsed(i, field) == to_float(Cell(i, field))

\* the history loop has just appended the row of record idx - 1
JustAppended ==
    /\ pc = "history"
    /\ idx > 1
    /\ TrimmedDate(idx - 1) # <<>>

LastEntry == finance_history[Len(finance_history)]

NullOrZero(x) == x = None \/ x = Zero

SnapshotReady == pc \in {"history", "done"}

\* the records in which a numeric field parses
ValidIn(field) == {i \in 1 .. Len(finance_rows) : Parsed(i, field) # None}

\* the last record in which a numeric field parses, 0 when there is none
LastValid(field) ==
    IF \E i \in 1 .. Len(finance_rows) : Parsed(i, field) # None
    THEN Max(ValidIn(field))
    ELSE 0

DatePrice(i) ==
    IF i = 0 THEN None
    ELSE IF TrimmedDate(i) = <<>> THEN None
    ELSE CloseOnOrAfter(TrimmedDate(i))

\* the close on or after the disclosure date of the record a field was
\* resolved from; None when no record holds the field or that record has no date
FieldPrice(field) == DatePrice(LastValid(field))

ScenarioPrices ==
    /\ DOMAIN price_by_date = {PriceMar30.Date, PriceJun30.Date}
    /\ price_by_date[PriceMar30.Date] = <<1000, 1>>
    /\ price_by_date[PriceJun30.Date] = <<1100, 1>>

PerFrom(price, eps) ==
    IF Truthy(price) /\ Truthy(eps) THEN Round2(Div(price, eps)) ELSE None

-----------------------------------------------------------------------------
(* C1 *)

\* C1 as amended: the reference price of a history row is the close on the
\* record's DiscDate if that date is a price date, otherwise the close of the
\* least price date after DiscDate, and None (price-based ratios null) when
\* DiscDate follows every price date.  For prices {2023-03-30: 1000,
\* 2023-06-30: 1100} and a disclosure of 2023-03-31 with EPS = 50 the
\* reference price is 1100 and the row's PER is 22.
C1_HistoryPriceOnOrAfter ==
    JustAppended =>
        /\ price_at = CloseOnOrAfter(TrimmedDate(idx - 1))
        /\ At(LastEntry, 2) = PerFrom(price_at, Parsed(idx - 1, "EPS"))
        /\ price_at = None =>
              \A i \in {2, 3, 5, 13, 23, 24, 25, 26, 39} :
                  At(LastEntry, i) = None
        /\ (finance_rows[idx - 1] = DisclosureScenario /\ ScenarioPrices) =>
              /\ price_at = <<1100, 1>>
              /\ At(LastEntry, 2) = <<22, 1>>

\* C1 witness: the scenario's row has been appended with the later close
C1_Witness ==
    /\ JustAppended
    /\ finance_rows[idx - 1] = DisclosureScenario
    /\ ScenarioPrices
    /\ At(LastEntry, 2) = <<22, 1>>

\* C1 as stated: the reference price of a history row is the on-or-before
\* price, 1000 and a PER of 20 in the scenario.
C1_HistoryPriceOnOrBefore ==
    JustAppended =>
        /\ price_at = CloseOnOrBefore(TrimmedDate(idx - 1))
        /\ At(LastEntry, 2) = PerFrom(price_at, Parsed(idx - 1, "EPS"))
        /\ (finance_rows[idx - 1] = DisclosureScenario /\ ScenarioPrices) =>
              /\ price_at = <<1000, 1>>
              /\ At(LastEntry, 2) = <<20, 1>>


-----------------------------------------------------------------------------
(* C2 *)

SharesFrom(np_val, eps) == FAbs(Div(np_val, eps))

\* C2 as amended: each price-based ratio of the snapshot is computed from the
\* close on or after the disclosure date of the record its field was resolved
\* from (EPS for per and MarketCap, BPS for pbr, CFO for pcfr, DivAnn, FDivAnn
\* and FEPS for their own ratios), and is null when that record has no DiscDate
\* or no price date is on or after it; the emitted 'price' is not used.  Stated
\* of the returned result.
C2_SnapshotPricePerField ==
    pc = "done" =>
        \A pEPS \in {FieldPrice("EPS")}, pBPS \in {FieldPrice("BPS")},
           pCFO \in {FieldPrice("CFO")}, pFEPS \in {FieldPrice("FEPS")},
           pDiv \in {FieldPrice("DivAnn")}, pFDiv \in {FieldPrice("FDivAnn")} :
            LET r   == result
                eps == result["EPS"]
                np  == result["NP"]
                cfo == result["CFO"]
            IN  /\ r.per = PerFrom(pEPS, eps)
                /\ r.pbr = PerFrom(pBPS, result["BPS"])
                /\ r.fper = PerFrom(pFEPS, result["FEPS"])
                /\ r.MarketCap # None =>
                      r.MarketCap = Round0(Mul(pEPS, SharesFrom(np, eps)))
                /\ r.pcfr # None =>
                      r.pcfr =
                          Round2(Div(pCFO, Div(cfo, SharesFrom(np, eps))))
                /\ r.DivYield # None =>
                      r.DivYield =
                          Round2(Mul(Div(result["DivAnn"], pDiv),
                                     Hundred))
                /\ r.FDivYield # None =>
                      r.FDivYield =
                          Round2(Mul(Div(result["FDivAnn"], pFDiv),
                                     Hundred))
                /\ r.psr # None =>
                      r.psr = Round2(Div(r.MarketCap, result["Sales"]))
                /\ r.ev_ebitda # None =>
                      r.ev_ebitda =
                          Round2(Div(Sub(r.MarketCap, OrZero(result["CashEq"])),
                                     result["OP"]))
                /\ ~Truthy(pEPS) => r.per = None /\ r.MarketCap = None
                /\ ~Truthy(pBPS) => r.pbr = None
                /\ ~Truthy(pCFO) => r.pcfr = None
                /\ ~Truthy(pFEPS) => r.fper = None
                /\ ~Truthy(pDiv) => r.DivYield = None
                /\ ~Truthy(pFDiv) => r.FDivYield = None

\* C2 witness: a snapshot whose per is computed from a close that is not the
\* emitted price
C2_Witness ==
    /\ pc = "done"
    /\ result["per"] # None
    /\ FieldPrice("EPS") # result["price"]
    /\ result["per"] = PerFrom(FieldPrice("EPS"), result["EPS"])

\* C2 as stated: a non-null per of the snapshot is price / EPS for the emitted
\* latest price, and so are pbr and fper.
C2_SnapshotUsesLatestPrice ==
    pc = "done" =>
        /\ result["per"] # None =>
              result["per"] = Round2(Div(result["price"], result["EPS"]))
        /\ result["pbr"] # None =>
              result["pbr"] = Round2(Div(result["price"], result["BPS"]))
        /\ result["fper"] # None =>
              result["fper"] = Round2(Div(result["price"], result["FEPS"]))
        /\ result["price"] = price_by_date[Greatest(DOMAIN price_by_date)]

-----------------------------------------------------------------------------
(* C3 *)

\* the records before i in which a numeric field parses to a non-zero value
NonZeroBefore(field, i) ==
    {j \in 1 .. (i - 1) : Parsed(j, field) # None /\ Parsed(j, field) # Zero}

Resolved == pc \in {"ratios", "history", "done"}

\* C3 as amended: for every numeric field, EPS, BPS and CFO included, a value
\* of the most recent record that parses to 0 is the resolved snapshot value;
\* no field is zero-excluded.
C3_ZeroIsResolved ==
    pc \in {"ratios", "done"} =>
        \A field \in NumFields :
            Parsed(Len(finance_rows), field) = Zero =>
                latest_finance[field] = Zero

\* C3 witness: EPS is 0 in the most recent record, non-zero in an older one,
\* and resolves to 0
C3_Witness ==
    /\ Resolved
    /\ Parsed(Len(finance_rows), "EPS") = Zero
    /\ NonZeroBefore("EPS", Len(finance_rows)) # {}
    /\ latest_finance["EPS"] = Zero

\* C3 as stated: a 0 of EPS, BPS or CFO in the most recent record is skipped
\* for the next older non-zero value; a 0 of any other field is resolved.
C3_ZeroExcluded ==
    Resolved =>
        \A field \in NumFields :
            Parsed(Len(finance_rows), field) = Zero =>
                IF field \in {"EPS", "BPS", "CFO"}
                THEN NonZeroBefore(field, Len(finance_rows)) # {} =>
                        latest_finance[field] =
                            Parsed(Max(NonZeroBefore(field, Len(finance_rows))),
                                   field)
                ELSE latest_finance[field] = Zero

-----------------------------------------------------------------------------
(* C4 *)

NonEmptyIn(field) ==
    {i \in 1 .. Len(finance_rows) : Strip(Cell(i, field)) # <<>>}

\* C4: every numeric field of the snapshot is the parsed value of the last
\* record in which that field parses, every string field the stripped value of
\* the last record in which it is non-empty, each None when there is no such
\* record, whatever the other fields hold; the result carries every field.
\* ("Non-empty" is after stripping, and the value is the stripped one.)  This is
\* stated of latest_finance when the resolution ends and of the result.
C4_IndependentResolution ==
    /\ pc = "ratios" =>
          /\ \A field \in NumFields :
                \A i \in {LastValid(field)} :
                    latest_finance[field] =
                        IF i = 0 THEN None ELSE Parsed(i, field)
          /\ \A field \in StrFields :
                \A S \in {NonEmptyIn(field)} :
                    latest_finance[field] =
                        IF S = {} THEN None ELSE Strip(Cell(Max(S), field))
    /\ pc = "done" =>
          /\ NumFields \cup StrFields \subseteq DOMAIN result
          /\ \A field \in NumFields :
                \A i \in {LastValid(field)} :
                    result[field] = IF i = 0 THEN None ELSE Parsed(i, field)
          /\ \A field \in StrFields :
                \A S \in {NonEmptyIn(field)} :
                    result[field] =
                        IF S = {} THEN None ELSE Strip(Cell(Max(S), field))

\* C4 witness: two fields of one snapshot come from different records and a
\* third is null
C4_Witness ==
    /\ pc = "done"
    /\ \E f \in NumFields, g \in NumFields :
          /\ ValidIn(f) # {}
          /\ ValidIn(g) # {}
          /\ Max(ValidIn(f)) < Max(ValidIn(g))
          /\ Max(ValidIn(f)) < Len(finance_rows)
    /\ \E h \in NumFields : result[h] = None


-----------------------------------------------------------------------------
(* C6 *)

\* C6: process_stock never leaves by a division fault, and every ratio of the
\* snapshot and of every history row is null when a denominator of its
\* formula is null or zero: EPS for PER, the share estimate and MarketCap, BPS
\* for PBR and ROE, NP (a share estimate of zero) and CFO (a CFPS of zero) for
\* PCFR, the reference price for the two dividend yields, TA for ROA, FEPS
\* for forward PER, Sales for PSR, OP for EV/EBITDA.
C6_NoDivisionFault ==
    /\ pc # "raised"
    /\ SnapshotReady =>
          /\ NullOrZero(latest_finance["EPS"]) =>
                snap.per = None /\ snap.pcfr = None /\ snap.MarketCap = None
          /\ NullOrZero(latest_finance["BPS"]) =>
                snap.pbr = None /\ snap.roe = None
          /\ NullOrZero(latest_finance["NP"]) => snap.pcfr = None
          /\ NullOrZero(latest_finance["CFO"]) => snap.pcfr = None
          /\ NullOrZero(FieldPrice("DivAnn")) => snap.DivYield = None
          /\ NullOrZero(FieldPrice("FDivAnn")) => snap.FDivYield = None
          /\ NullOrZero(latest_finance["TA"]) => snap.roa = None
          /\ NullOrZero(latest_finance["FEPS"]) => snap.fper = None
          /\ NullOrZero(latest_finance["Sales"]) => snap.psr = None
          /\ NullOrZero(snap.MarketCap) =>
                snap.psr = None /\ snap.ev_ebitda = None
          /\ NullOrZero(latest_finance["OP"]) => snap.ev_ebitda = None
    /\ JustAppended =>
          LET e == LastEntry
              V(field) == Parsed(idx - 1, field)
          IN  /\ NullOrZero(V("EPS")) =>
                    At(e, 2) = None /\ At(e, 5) = None /\ At(e, 13) = None
              /\ NullOrZero(V("BPS")) => At(e, 3) = None /\ At(e, 4) = None
              /\ NullOrZero(V("NP")) => At(e, 5) = None
              /\ NullOrZero(V("CFO")) => At(e, 5) = None
              /\ NullOrZero(price_at) => At(e, 23) = None /\ At(e, 39) = None
              /\ NullOrZero(V("TA")) => At(e, 22) = None
              /\ NullOrZero(V("FEPS")) => At(e, 24) = None
              /\ NullOrZero(V("Sales")) => At(e, 25) = None
              /\ NullOrZero(At(e, 13)) => At(e, 25) = None /\ At(e, 26) = None
              /\ NullOrZero(V("OP")) => At(e, 26) = None

\* C6 witness: a history row and a snapshot whose NP is a number and whose
\* TA, BPS, FEPS, Sales and OP are 0, built with a price at hand
C6_Witness ==
    /\ JustAppended
    /\ Truthy(price_at)
    /\ Parsed(idx - 1, "NP") # None
    /\ \A field \in {"TA", "BPS", "FEPS", "Sales", "OP"} :
          /\ Parsed(idx - 1, field) = Zero
          /\ latest_finance[field] = Zero
    /\ At(LastEntry, 22) = None
    /\ snap.roa = None

-----------------------------------------------------------------------------
(* C7 *)

\* MarketCap - CashEq with an absent CashEq taken as 0
EnterpriseValue(market_cap, cash_eq) ==
    Sub(market_cap, IF cash_eq = None THEN Zero ELSE cash_eq)

EvRule(ev_ebitda, market_cap, op, cash_eq) ==
    /\ (market_cap # None /\ ~Gt0(EnterpriseValue(market_cap, cash_eq))) =>
          ev_ebitda = None
    /\ ev_ebitda # None =>
          /\ market_cap # None
          /\ op # None
          /\ op # Zero
          /\ Gt0(EnterpriseValue(market_cap, cash_eq))

\* C7: the ev_ebitda of the snapshot and of every history row is null when
\* MarketCap - CashEq (CashEq 0 when absent) is <= 0, also for a positive OP;
\* a non-null ev_ebitda implies a non-null MarketCap, a non-null non-zero OP
\* and an enterprise value above 0.
C7_EvEbitdaNeedsPositiveEV ==
    /\ SnapshotReady =>
          EvRule(snap.ev_ebitda, snap.MarketCap, latest_finance["OP"],
                 latest_finance["CashEq"])
    /\ JustAppended =>
          EvRule(At(LastEntry, 26), At(LastEntry, 13), At(LastEntry, 7),
                 At(LastEntry, 12))

\* C7 witness: a positive OP, a MarketCap not above the cash, no ev_ebitda, in
\* the snapshot and in the row just appended
C7_Witness ==
    /\ JustAppended
    /\ Gt0(latest_finance["OP"])
    /\ Truthy(snap.MarketCap)
    /\ ~Gt0(EnterpriseValue(snap.MarketCap, latest_finance["CashEq"]))
    /\ snap.ev_ebitda = None
    /\ Gt0(At(LastEntry, 7))
    /\ Truthy(At(LastEntry, 13))
    /\ ~Gt0(EnterpriseValue(At(LastEntry, 13), At(LastEntry, 12)))
    /\ At(LastEntry, 26) = None

-----------------------------------------------------------------------------
(* C8 *)

\* the records with a date among the first n, in order
RECURSIVE DatedUpTo(_)
DatedUpTo(n) ==
    IF n = 0 THEN <<>>
    ELSE IF TrimmedDate(n) # <<>> THEN Append(DatedUpTo(n - 1), n)
    ELSE DatedUpTo(n - 1)

\* the raw values a row copies, by position in the row
CopiedFields ==
    [NP |-> 1, Sales |-> 6, OP |-> 7, OdP |-> 8, EPS |-> 9, BPS |-> 10,
     CFO |-> 11, CashEq |-> 12, TA |-> 15, Eq |-> 16, EqAR |-> 17,
     CFI |-> 18, CFF |-> 19, DivAnn |-> 20, DEPS |-> 21, FDivAnn |-> 27,
     FPayoutRatioAnn |-> 28, FSales |-> 29, FOP |-> 30, FOdP |-> 31,
     FNP |-> 32, FEPS |-> 33, NxFSales |-> 34, NxFOP |-> 35, NxFOdP |-> 36,
     NxFNp |-> 37, NxFEPS |-> 38]

\* C8: a history row carries the values of its own record only: with EPS
\* blank on the record the row's PER, PCFR, MarketCap, PSR and EV/EBITDA are
\* null whatever the other records and the snapshot hold, every copied value
\* is the record's own, and two records that are equal give equal rows
\* whatever stands around them.
C8_HistoryRowOwnRecordOnly ==
    /\ JustAppended =>
          /\ Parsed(idx - 1, "EPS") = None =>
                \A i \in {2, 5, 13, 25, 26} : At(LastEntry, i) = None
          /\ \A field \in DOMAIN CopiedFields :
                At(LastEntry, CopiedFields[field]) = Parsed(idx - 1, field)
    /\ pc = "done" =>
          LET dated == DatedUpTo(Len(finance_rows))
          IN  \A j \in 1 .. Len(dated), k \in 1 .. Len(dated) :
                  (j <= Len(finance_history) /\ k <= Len(finance_history)
                   /\ finance_rows[dated[j]] = finance_rows[dated[k]]) =>
                      finance_history[j] = finance_history[k]

\* C8 witness: a row with a blank EPS and a price, after a record with a valid
\* EPS, while the snapshot resolves an EPS
C8_Witness ==
    /\ JustAppended
    /\ idx > 2
    /\ Parsed(idx - 1, "EPS") = None
    /\ Truthy(Parsed(idx - 2, "EPS"))
    /\ Truthy(latest_finance["EPS"])
    /\ Truthy(Parsed(idx - 1, "NP"))
    /\ Truthy(price_at)
    /\ snap.per # None
    /\ At(LastEntry, 2) = None
    /\ At(LastEntry, 13) = None

-----------------------------------------------------------------------------
(* C9 *)

\* C9: fh holds one row per record whose stripped DiscDate is non-empty, in
\* the order of the records, with that stripped date as its first element and
\* the record's own EPS in it; records without a date add nothing and raise
\* nothing.  While the loop runs this holds of the records already passed.
C9_HistoryOneRowPerDatedRecord ==
    /\ pc # "raised"
    /\ pc \in {"history", "done"} =>
          LET n     == IF pc = "done" THEN Len(finance_rows) ELSE idx - 1
              dated == DatedUpTo(n)
          IN  /\ Len(finance_history) = Len(dated)
              /\ \A k \in 1 .. Len(dated) :
                    /\ k <= Len(finance_history)
                    /\ At(finance_history[k], 0) = TrimmedDate(dated[k])
                    /\ At(finance_history[k], 9) = Parsed(dated[k], "EPS")
    /\ pc = "done" => result["fh"] = finance_history

\* C9 witness: a record whose DiscDate is whitespace stands before a dated
\* record, and fh holds the one row of the latter
C9_Witness ==
    /\ pc = "done"
    /\ Len(finance_rows) = 2
    /\ Cell(1, "DiscDate") # <<>>
    /\ TrimmedDate(1) = <<>>
    /\ TrimmedDate(2) # <<>>
    /\ Len(result["fh"]) = 1
    /\ At(result["fh"][1], 0) = TrimmedDate(2)

-----------------------------------------------------------------------------
(* C5 *)

\* C5: find_price_on_date returns the close of the target when the target is
\* a known date, else the close of the greatest known date before the target,
\* else None (the target precedes every known date, or the series is empty).
C5_LookupOnOrBefore ==
    pc = "lookup_done" => found = CloseOnOrBefore(target_date)

\* C5 witness: the target is no known date, two known dates precede it and one
\* follows it, and the later of the two preceding closes is returned
C5_Witness ==
    /\ pc = "lookup_done"
    /\ target_date \notin DOMAIN price_by_date
    /\ Cardinality({d \in DOMAIN price_by_date : Before(d, target_date)}) = 2
    /\ \E d \in DOMAIN price_by_date : Before(target_date, d)
    /\ found = <<1050, 1>>

-----------------------------------------------------------------------------
(* C10 *)

ValidPriceRows ==
    {i \in 1 .. Len(price_rows) :
        /\ Strip(price_rows[i].Date) # <<>>
        /\ to_float(price_rows[i].Close) # None}

MonthOf(i) == SubSeq(Strip(price_rows[i].Date), 1, 7)

RowsOfMonth(ym) == {i \in ValidPriceRows : MonthOf(i) = ym}

=============================================================================
